---- MODULE Spec2Model ----
(***************************************************************************)
(* Model of golem/ethereum/node.py: get_public_nodes and the NodeProcess   *)
(* supervisor (start / stop / _start_timed_out / provider construction /   *)
(* geth version gate / log-copy thread start).                             *)
(*                                                                         *)
(* Time: `elapsed` is time.time() - started for the attempt in progress,   *)
(* so "time.time() > deadline" reads elapsed > CONNECTION_TIMEOUT.  One     *)
(* loop iteration of start() is one step; a time.sleep() advances the      *)
(* clock by 1..MaxSleep units.                                             *)
(***************************************************************************)
EXTENDS Integers, Sequences, FiniteSets, TLC

VARIABLES
    cfg,            \* arguments of __init__ and the platform the program runs on
    geth,           \* environment: what find_program('geth') / `geth version` give
    public_nodes,   \* value returned by get_public_nodes() in __init__ (or NotCalled)
    start_node,     \* self.start_node
    addr_list,      \* self.addr_list
    web3,           \* self.web3: the provider the client wraps (NoProvider = None)
    prog,           \* self.__prog
    ps,             \* self.__ps: pid of the owned child (NoProcess = None)
    children,       \* status of every child process spawned so far, by pid
    hooks,          \* number of atexit hooks registered
    pc,             \* position of the start() call
    start_port,     \* start_port argument of the start() call in progress
    elapsed,        \* time.time() - started
    node,           \* environment: behaviour of the node behind the current provider
    connected,      \* the liveness loop of the current attempt has been left
    genesis_block,  \* local genesis_block of the current attempt
    attempts,       \* number of start() frames of the current call
    result,         \* how the last start() / stop() call ended
    exited,         \* the program has terminated and atexit hooks have run
    hook_errors,    \* number of atexit hooks that raised
    tee_pc,         \* log-copy: position of the spawning thread in its loop
    tee_kwargs,     \* log-copy: the shared tee_kwargs dict
    tee_threads,    \* log-copy: per started thread, its state and captured kwargs
    tee_pipes,      \* log-copy: lines the child still has buffered on each stream
    tee_out         \* log-copy: what was written to the parent's streams and the log

sup_vars == <<cfg, geth, public_nodes, start_node, addr_list, web3, prog, ps,
              children, hooks, pc, start_port, elapsed, node, connected,
              genesis_block, attempts, result, exited, hook_errors>>
tee_vars == <<tee_pc, tee_kwargs, tee_threads, tee_pipes, tee_out>>
vars == <<sup_vars, tee_vars>>

(***************************************************************************)
(* Bounds of the model.                                                    *)
(***************************************************************************)
MaxSleep == 2       \* a sleep advances the clock by 1..MaxSleep
MaxSpawns == 2      \* children spawned over the program's life
MaxHooks == 5       \* atexit hooks registered over the program's life
MaxLines == 1       \* lines the child writes on each stream

(***************************************************************************)
(* Program constants.                                                      *)
(***************************************************************************)
CONNECTION_TIMEOUT == 10
CHAIN == "rinkeby"
NODE_LIST_URL == "https://rinkeby.golem.network"
FALLBACK_NODE_LIST ==
    << "http://188.165.227.180:55555",
       "http://94.23.17.170:55555",
       "http://94.23.57.58:55555" >>
MIN_GETH_VERSION == <<1, 7, 2>>
MAX_GETH_VERSION == <<1, 7, 999>>

MainnetHash == "0xd4e56740f876aef8c010b86a40d5f56745a118d0906a34e69aec8c0db1cb8fa3"
RopstenHash == "0x41941023680923e0fe4d74a34bdac8141f2540e3ae90623718e47d66d1ca4a2d"
RinkebyHash == "0x6341fd3daf94b748c72ced5a5b26028f2474f5f00d824504e4fa37a75767e177"
OtherHash == "0x00"

GENESES(h) ==
    CASE h = MainnetHash -> "mainnet"
      [] h = RopstenHash -> "ropsten"
      [] h = RinkebyHash -> "rinkeby"
      [] OTHER -> "unknown"

None == "None"
NoProcess == 0
NoPort == 0
NoProvider == [kind |-> "none", endpoint |-> ""]
Never == CONNECTION_TIMEOUT + MaxSleep + 1

Last(s) == s[Len(s)]

Front_keeps_all(s) == s

Front(s) == SubSeq(s, 1, Len(s) - 1)
Range(s) == { s[i] : i \in DOMAIN s }

(***************************************************************************)
(* get_public_nodes.  A response of the directory service is               *)
(* [raises, status, json, value]: requests.get raised (network error), or  *)
(* it returned `status` with a body that .json() parses to `value`         *)
(* (json = TRUE) or fails to parse (json = FALSE).  The code never looks   *)
(* at the status.                                                          *)
(***************************************************************************)
NetworkError == [raises |-> TRUE, status |-> 0, json |-> FALSE, value |-> <<>>]
Malformed(st) == [raises |-> FALSE, status |-> st, json |-> FALSE, value |-> <<>>]
JsonBody(st, v) == [raises |-> FALSE, status |-> st, json |-> TRUE, value |-> v]

Responses ==
    { NetworkError, Malformed(200), JsonBody(500, << "http://bad:1" >>),
      JsonBody(200, <<>>), JsonBody(200, << "http://bad:1", "http://good:2" >>) }

\* random.shuffle(addr_list): every ordering of the list is a possible outcome
Shuffles(list) ==
    { [i \in 1..Len(list) |-> list[p[i]]] : p \in Permutations(1..Len(list)) }

\* requests.get(NODE_LIST_URL).json() raised, so the except branch is taken
download_raises(resp) == resp.raises \/ ~resp.json

\* `shuffled` is the outcome of random.shuffle on the copy FALLBACK_NODE_LIST[:]
get_public_nodes(resp, shuffled) ==
    IF download_raises(resp) THEN shuffled ELSE resp.value

NotCalled == [called |-> FALSE, response |-> NetworkError, value |-> <<>>]

(***************************************************************************)
(* _find_geth.  The environment `geth` is [found, version]: whether        *)
(* find_program finds the binary, and the version its output reports       *)
(* (<<>> when the output holds no "Version: x.y.z").                       *)
(***************************************************************************)
GethInstalls ==
    { [found |-> FALSE, version |-> <<>>],
      [found |-> TRUE, version |-> <<1, 7, 2>>],
      [found |-> TRUE, version |-> <<1, 8, 0>>] }

VersionLess_patch_only(a, b) == a[3] < b[3]

\* StrictVersion ordering: major, then minor, then patch
VersionLess(a, b) ==
    \/ a[1] < b[1]
    \/ a[1] = b[1] /\ a[2] < b[2]
    \/ a[1] = b[1] /\ a[2] = b[2] /\ a[3] < b[3]

find_geth(g) ==
    IF ~g.found THEN "geth_not_found"
    ELSE IF g.version = <<>> THEN "version_parse_error"
    ELSE IF VersionLess(g.version, MIN_GETH_VERSION)
            \/ VersionLess(MAX_GETH_VERSION, g.version)
         THEN "incompatible_version"
    ELSE "ok"

(***************************************************************************)
(* Providers.  A provider is [kind, endpoint]; "{}".format(provider) in    *)
(* the cannot-connect message names it.                                    *)
(***************************************************************************)
HTTPProvider(addr) == [kind |-> "http", endpoint |-> addr]
IPCProvider(path) == [kind |-> "ipc", endpoint |-> path]

\* lines 219-225: <tempdir>/<chain>-<port>, on Windows \\.\pipe\<self.start_node>
ipc_path(chain, port, windows, sn) ==
    IF windows THEN "\\\\.\\pipe\\" \o ToString(sn)
    ELSE "/tmp/" \o chain \o "-" \o ToString(port)

FreePorts == { 49152 }
StartPorts == { NoPort, 30303 }

(***************************************************************************)
(* The node behind a provider: it answers the liveness check from time     *)
(* liveAt on and serves block 0 (with hash `hash`) from time blockAt on.   *)
(* Before it is live, web3.isConnected() returns False or raises           *)
(* AssertionError; from time errAt on (if it is not live by then) the      *)
(* endpoint answers with something web3 cannot handle and isConnected()    *)
(* raises another error (a KeyError or ValueError on a malformed reply).   *)
(***************************************************************************)
ReadyAt == 6
NodeFates ==
    { [liveAt |-> Never, blockAt |-> Never, hash |-> OtherHash, errAt |-> Never],
      [liveAt |-> 0, blockAt |-> Never, hash |-> OtherHash, errAt |-> Never],
      [liveAt |-> ReadyAt, blockAt |-> Never, hash |-> OtherHash, errAt |-> Never],
      [liveAt |-> Never, blockAt |-> Never, hash |-> OtherHash, errAt |-> 0],
      [liveAt |-> Never, blockAt |-> Never, hash |-> OtherHash, errAt |-> ReadyAt] }
    \cup { [liveAt |-> t[1], blockAt |-> t[2], hash |-> h, errAt |-> Never] :
             t \in { <<0, 0>>, <<0, ReadyAt>>, <<ReadyAt, ReadyAt>> },
             h \in { MainnetHash, RinkebyHash, OtherHash } }

NoNode == [liveAt |-> Never, blockAt |-> Never, hash |-> OtherHash, errAt |-> Never]

\* lines 172-175: True when web3.isConnected() returned True, False when it
\* returned False or raised AssertionError
is_connected(n, now) == now >= n.liveAt

\* lines 172-174: web3.isConnected() raised something the except clause
\* does not name, which leaves is_connected() and start()
is_connected_raises(n, now) == now >= n.errAt /\ ~(now >= n.liveAt)

\* web3.eth.getBlock(0), None when it raises
get_genesis_block(n, now) ==
    IF now >= n.liveAt /\ now >= n.blockAt THEN n.hash ELSE None

identify_chain(block) == GENESES(block)

(***************************************************************************)
(* NodeProcess.__init__                                                    *)
(***************************************************************************)
Configs ==
    [addr : { None, "http://bad:1" }, start_node : BOOLEAN, windows : BOOLEAN]

\* the log-copy threads are modelled apart (TeeSpec below)
TeeIdle ==
    /\ tee_pc = [i |-> 0, step |-> "unused"]
    /\ tee_kwargs = [prefix |-> None, input_stream |-> None, stream |-> None]
    /\ tee_threads = <<>>
    /\ tee_pipes = [s \in { "stderr", "stdout" } |-> 0]
    /\ tee_out = <<>>

\* NodeProcess(datadir, addr, start_node) is about to be constructed
Init ==
    /\ cfg \in Configs
    /\ geth \in GethInstalls
    /\ public_nodes = NotCalled
    /\ addr_list = <<>>
    /\ start_node = FALSE
    /\ web3 = NoProvider
    /\ prog = None
    /\ ps = NoProcess
    /\ children = <<>>
    /\ hooks = 0
    /\ pc = "new"
    /\ start_port = NoPort
    /\ elapsed = 0
    /\ node = NoNode
    /\ connected = FALSE
    /\ genesis_block = None
    /\ attempts = 0
    /\ result = [op |-> "none", outcome |-> "none", detail |-> ""]
    /\ exited = FALSE
    /\ hook_errors = 0
    /\ TeeIdle

\* lines 101-113; the directory's response and the outcome of the shuffle
\* are inputs of get_public_nodes
Construct ==
    /\ pc = "new"
    /\ start_node' = cfg.start_node
    /\ web3' = NoProvider
    /\ IF cfg.addr # None
       THEN /\ addr_list' = << cfg.addr >>
            /\ UNCHANGED public_nodes
       ELSE \E resp \in Responses, shuffled \in Shuffles(FALLBACK_NODE_LIST) :
            /\ public_nodes' = [called |-> TRUE, response |-> resp,
                                value |-> get_public_nodes(resp, shuffled)]
            /\ addr_list' = public_nodes'.value
    /\ prog' = None
    /\ ps' = NoProcess
    /\ pc' = "idle"
    /\ UNCHANGED <<cfg, geth, children, hooks, start_port, elapsed, node,
                   connected, genesis_block, attempts, result, exited,
                   hook_errors, tee_vars>>

(***************************************************************************)
(* NodeProcess.start                                                       *)
(***************************************************************************)
Done == { "idle", "verified", "failed" }
Alive(c) == { p \in DOMAIN c : c[p] = "alive" }

already_started_never(p) == FALSE

\* line 120: if self.__ps is not None
already_started(p) == p # NoProcess

wrong_chain_never(chain) == FALSE

\* line 148: identified_chain != self.CHAIN
wrong_chain(chain) == chain # CHAIN

timed_out_at_once(now) == now > 0

timed_out_never(now) == FALSE

\* lines 132, 135, 142: time.time() > started + self.CONNECTION_TIMEOUT
timed_out(now) == now > CONNECTION_TIMEOUT

fallback_never(list) == FALSE

fallback_always(list) == TRUE

\* line 200: self.start_node = not self.addr_list
fallback_to_local(list) == list = <<>>

\* a raise that leaves start(): the frames below it are left as well
Raise(outcome, detail) ==
    /\ pc' = "failed"
    /\ result' = [op |-> "start", outcome |-> outcome, detail |-> detail]

\* lines 128-132: the client, the exit hook and the deadline of a new attempt
BeginPolling(provider) ==
    /\ hooks < MaxHooks
    /\ web3' = provider
    /\ hooks' = hooks + 1
    /\ elapsed' = 0
    /\ node' \in NodeFates
    /\ connected' = FALSE
    /\ genesis_block' = None
    /\ pc' = "connecting"
    /\ result' = [op |-> "start", outcome |-> "pending", detail |-> ""]

\* lines 204-261
create_local_ipc_provider(chain, sn, port) ==
    LET found == find_geth(geth) IN
    IF found # "ok"
    THEN /\ Raise(found, "")
         /\ UNCHANGED <<prog, ps, children, web3, hooks, elapsed, node,
                        connected, genesis_block>>
    ELSE /\ Len(children) < MaxSpawns
         /\ prog' = "geth"
         /\ children' = Append(children, "alive")
         /\ ps' = Len(children) + 1
         /\ \E p \in (IF port = NoPort THEN FreePorts ELSE { port }) :
               BeginPolling(IPCProvider(ipc_path(chain, p, cfg.windows, sn)))

\* lines 263-266; list.pop() on an empty list raises IndexError
create_remote_rpc_provider ==
    IF addr_list = <<>>
    THEN /\ Raise("index_error", "")
         /\ UNCHANGED <<addr_list, web3, hooks, elapsed, node, connected,
                        genesis_block>>
    ELSE /\ addr_list' = Front(addr_list)
         /\ BeginPolling(HTTPProvider(Last(addr_list)))

\* lines 119-132 of the frame that runs with self.start_node = sn
start(sn, port) ==
    /\ start_node' = sn
    /\ start_port' = port
    /\ IF already_started(ps)
       THEN /\ Raise("already_started", "")
            /\ UNCHANGED <<addr_list, web3, prog, ps, children, hooks, elapsed,
                           node, connected, genesis_block>>
       ELSE IF sn
       THEN /\ create_local_ipc_provider(CHAIN, sn, port)
            /\ UNCHANGED addr_list
       ELSE /\ create_remote_rpc_provider
            /\ UNCHANGED <<prog, ps, children>>

start_timed_out_always_retries ==
    /\ start(fallback_to_local(addr_list), start_port)
    /\ attempts' = attempts + 1

\* lines 198-202
start_timed_out ==
    IF ~start_node
    THEN /\ start(fallback_to_local(addr_list), start_port)
         /\ attempts' = attempts + 1
    ELSE /\ Raise("cannot_connect", web3.endpoint)
         /\ UNCHANGED <<start_node, start_port, addr_list, web3, prog, ps,
                        children, hooks, elapsed, node, connected,
                        genesis_block, attempts>>

raise_wrong_chain_polls_on(chain) == pc' = "connecting" /\ UNCHANGED result

\* line 149: raise OSError("Wrong '{}' Ethereum chain".format(identified_chain))
raise_wrong_chain(chain) == Raise("wrong_chain", chain)

\* lines 147-153
Identify(block) ==
    LET identified_chain == identify_chain(block) IN
    IF wrong_chain(identified_chain)
    THEN raise_wrong_chain(identified_chain)
    ELSE /\ pc' = "verified"
         /\ result' = [op |-> "start", outcome |-> "ok", detail |-> ""]

env_vars == <<cfg, geth, public_nodes, exited, hook_errors>>

\* the hooks a start() call can come to register (one per attempt) and the
\* children it can come to spawn stay within the bounds of the model
WithinBounds ==
    \/ already_started(ps)
    \/ /\ hooks + (IF start_node THEN 1 ELSE Len(addr_list) + 1) <= MaxHooks
       /\ Len(children) < MaxSpawns

\* a caller calls start(start_port)
Start ==
    /\ pc \in Done
    /\ ~exited
    /\ WithinBounds
    /\ \E port \in StartPorts : start(start_node, port)
    /\ attempts' = 1
    /\ UNCHANGED <<env_vars, tee_vars>>

\* lines 134-137, liveness check fails before the deadline: sleep
ConnectSleep ==
    /\ pc = "connecting"
    /\ ~is_connected_raises(node, elapsed)
    /\ ~is_connected(node, elapsed)
    /\ ~timed_out(elapsed)
    /\ \E d \in 1..MaxSleep : elapsed' = elapsed + d
    /\ UNCHANGED <<env_vars, tee_vars, start_node, addr_list, web3, prog, ps,
                   children, hooks, pc, start_port, node, connected,
                   genesis_block, attempts, result>>

\* line 134, the liveness check raises an error other than AssertionError
ConnectError ==
    /\ pc = "connecting"
    /\ is_connected_raises(node, elapsed)
    /\ Raise("liveness_error", "")
    /\ UNCHANGED <<env_vars, tee_vars, start_node, addr_list, web3, prog, ps,
                   children, hooks, start_port, elapsed, node, connected,
                   genesis_block, attempts>>

\* lines 134-136, liveness check fails after the deadline
ConnectTimeout ==
    /\ pc = "connecting"
    /\ ~is_connected_raises(node, elapsed)
    /\ ~is_connected(node, elapsed)
    /\ timed_out(elapsed)
    /\ start_timed_out
    /\ UNCHANGED <<env_vars, tee_vars>>

\* lines 134, 139-153: the liveness check succeeds and block 0 is asked for
Connected ==
    /\ pc = "connecting"
    /\ is_connected(node, elapsed)
    /\ connected' = TRUE
    /\ genesis_block' = get_genesis_block(node, elapsed)
    /\ IF genesis_block' = None
       THEN pc' = "awaiting_genesis" /\ UNCHANGED result
       ELSE Identify(genesis_block')
    /\ UNCHANGED <<env_vars, tee_vars, start_node, addr_list, web3, prog, ps,
                   children, hooks, start_port, elapsed, node, attempts>>

\* lines 141-145, no block yet and before the deadline: sleep, ask again
GenesisPoll ==
    /\ pc = "awaiting_genesis"
    /\ ~timed_out(elapsed)
    /\ \E d \in 1..MaxSleep : elapsed' = elapsed + d
    /\ genesis_block' = get_genesis_block(node, elapsed')
    /\ IF genesis_block' = None
       THEN UNCHANGED <<pc, result>>
       ELSE Identify(genesis_block')
    /\ UNCHANGED <<env_vars, tee_vars, start_node, addr_list, web3, prog, ps,
                   children, hooks, start_port, node, connected, attempts>>

\* lines 141-143, no block yet and the deadline has passed
GenesisTimeout ==
    /\ pc = "awaiting_genesis"
    /\ timed_out(elapsed)
    /\ start_timed_out
    /\ UNCHANGED <<env_vars, tee_vars>>

(***************************************************************************)
(* NodeProcess.stop.  A child is "alive", "exited" (a zombie: terminate()  *)
(* and wait() succeed), "vanished" (reaped elsewhere: terminate() raises)  *)
(* or "terminated" (terminated and waited on by stop()).                   *)
(***************************************************************************)
\* lines 160-165: terminate() raises on a vanished process; the except
\* clause names subprocess.NoSuchProcess, which the subprocess module does
\* not have, so evaluating it raises AttributeError out of stop()
stop_raises(p, c) == p # NoProcess /\ c[p] = "vanished"

\* line 167: self.__ps = None, not reached when the try block raised
stop_ps(p, c) == IF stop_raises(p, c) THEN p ELSE NoProcess

stop_children_no_terminate(p, c) == c

\* lines 161-162: self.__ps.terminate(); self.__ps.wait()
stop_children(p, c) ==
    IF p # NoProcess /\ ~stop_raises(p, c)
    THEN [c EXCEPT ![p] = "terminated"]
    ELSE c

stop_outcome(p, c) ==
    IF p = NoProcess THEN "noop"
    ELSE IF stop_raises(p, c) THEN "attribute_error"
    ELSE "terminated"

\* a caller calls stop()
Stop ==
    /\ pc \in Done
    /\ ~exited
    /\ ps' = stop_ps(ps, children)
    /\ children' = stop_children(ps, children)
    /\ result' = [op |-> "stop", outcome |-> stop_outcome(ps, children),
                  detail |-> ""]
    /\ UNCHANGED <<env_vars, tee_vars, start_node, addr_list, web3, prog, hooks,
                   pc, start_port, elapsed, node, connected, genesis_block,
                   attempts>>

\* the owned child ends on its own: after start() has returned, or during
\* start() when it is a child whose node never answers
ChildExits ==
    /\ ps # NoProcess
    /\ children[ps] = "alive"
    /\ pc \in Done \/ node.liveAt = Never
    /\ \E how \in { "exited", "vanished" } :
          children' = [children EXCEPT ![ps] = how]
    /\ UNCHANGED <<env_vars, tee_vars, start_node, addr_list, web3, prog, ps,
                   hooks, pc, start_port, elapsed, node, connected,
                   genesis_block, attempts, result>>

\* normal program termination: atexit runs every registered hook, each of
\* which calls stop(); a hook that raises is reported and the next one runs
Exit ==
    /\ pc \in Done
    /\ ~exited
    /\ exited' = TRUE
    /\ ps' = IF hooks > 0 THEN stop_ps(ps, children) ELSE ps
    /\ children' = IF hooks > 0 THEN stop_children(ps, children) ELSE children
    /\ hook_errors' = IF stop_raises(ps, children) THEN hooks ELSE 0
    /\ UNCHANGED <<cfg, geth, public_nodes, tee_vars, start_node, addr_list,
                   web3, prog, hooks, pc, start_port, elapsed, node, connected,
                   genesis_block, attempts, result>>

Next ==
    \/ Construct
    \/ Start
    \/ ConnectSleep
    \/ ConnectError
    \/ ConnectTimeout
    \/ Connected
    \/ GenesisPoll
    \/ GenesisTimeout
    \/ Stop
    \/ ChildExits
    \/ Exit

Spec == Init /\ [][Next]_vars

\* the thread that called start() keeps running: every sleep returns and
\* the loop goes on to its next iteration
Poll ==
    \/ ConnectSleep
    \/ ConnectError
    \/ ConnectTimeout
    \/ Connected
    \/ GenesisPoll
    \/ GenesisTimeout

FairSpec == Spec /\ WF_vars(Poll)

(***************************************************************************)
(* The log-copy threads of _create_local_ipc_provider, lines 244-259.      *)
(* The loop stores the channel in the one tee_kwargs dict and starts a     *)
(* thread with kwargs=tee_kwargs; threading.Thread keeps a reference to    *)
(* that dict and unpacks it as the target's arguments when the new thread *)
(* runs,                                                                   *)
(* so what a thread gets is the dict as it is at that moment.  Every       *)
(* assignment of the loop and every thread step is one step here.          *)
(***************************************************************************)
channels ==
    << [prefix |-> "GETH", in_ |-> "stderr", out |-> "sys.stderr"],
       [prefix |-> "GETHO", in_ |-> "stdout", out |-> "sys.stdout"] >>

\* the keyword arguments the loop means thread i to get
channel_kwargs(i) ==
    [prefix |-> channels[i].prefix \o ": ", input_stream |-> channels[i].in_,
     stream |-> channels[i].out]

\* the state in which line 244 is reached: a local start() has just spawned
\* the child, which has some lines buffered on each of its streams
TeeInit ==
    /\ cfg = [addr |-> None, start_node |-> TRUE, windows |-> FALSE]
    /\ geth = [found |-> TRUE, version |-> <<1, 7, 2>>]
    /\ public_nodes = [called |-> TRUE, response |-> NetworkError,
                       value |-> FALLBACK_NODE_LIST]
    /\ start_node = TRUE
    /\ addr_list = FALLBACK_NODE_LIST
    /\ web3 = NoProvider
    /\ prog = "geth"
    /\ ps = 1
    /\ children = << "alive" >>
    /\ hooks = 0
    /\ pc = "spawning"
    /\ start_port = NoPort
    /\ elapsed = 0
    /\ node = NoNode
    /\ connected = FALSE
    /\ genesis_block = None
    /\ attempts = 1
    /\ result = [op |-> "start", outcome |-> "pending", detail |-> ""]
    /\ exited = FALSE
    /\ hook_errors = 0
    /\ tee_pc = [i |-> 1, step |-> "prefix"]
    /\ tee_kwargs = [prefix |-> None, input_stream |-> None, stream |-> None]
    /\ tee_threads = <<>>
    /\ tee_pipes \in [{ "stderr", "stdout" } -> 0..MaxLines]
    /\ tee_out = <<>>

\* line 253
TeeSetPrefix ==
    /\ tee_pc.step = "prefix"
    /\ tee_kwargs' = [tee_kwargs EXCEPT !.prefix = channels[tee_pc.i].prefix \o ": "]
    /\ tee_pc' = [tee_pc EXCEPT !.step = "input_stream"]
    /\ UNCHANGED <<sup_vars, tee_threads, tee_pipes, tee_out>>

\* line 254
TeeSetInput ==
    /\ tee_pc.step = "input_stream"
    /\ tee_kwargs' = [tee_kwargs EXCEPT !.input_stream = channels[tee_pc.i].in_]
    /\ tee_pc' = [tee_pc EXCEPT !.step = "stream"]
    /\ UNCHANGED <<sup_vars, tee_threads, tee_pipes, tee_out>>

\* line 255
TeeSetStream ==
    /\ tee_pc.step = "stream"
    /\ tee_kwargs' = [tee_kwargs EXCEPT !.stream = channels[tee_pc.i].out]
    /\ tee_pc' = [tee_pc EXCEPT !.step = "start"]
    /\ UNCHANGED <<sup_vars, tee_threads, tee_pipes, tee_out>>

\* lines 256-259: the thread is created and started; it has not run yet
TeeStartThread ==
    /\ tee_pc.step = "start"
    /\ tee_threads' = Append(tee_threads, [state |-> "started", kwargs |-> tee_kwargs])
    /\ tee_pc' = IF tee_pc.i < Len(channels)
                 THEN [i |-> tee_pc.i + 1, step |-> "prefix"]
                 ELSE [i |-> tee_pc.i, step |-> "done"]
    /\ UNCHANGED <<sup_vars, tee_kwargs, tee_pipes, tee_out>>

\* a started thread runs: its target's arguments are read from the shared
\* dict now
TeeThreadRun(t) ==
    /\ tee_threads[t].state = "started"
    /\ tee_threads' = [tee_threads EXCEPT ![t] = [state |-> "running", kwargs |-> tee_kwargs]]
    /\ UNCHANGED <<sup_vars, tee_pc, tee_kwargs, tee_pipes, tee_out>>

\* tee_target: a running thread copies one line from its input stream to
\* its output stream, with its prefix
TeeCopy(t) ==
    LET k == tee_threads[t].kwargs IN
    /\ tee_threads[t].state = "running"
    /\ tee_pipes[k.input_stream] > 0
    /\ tee_pipes' = [tee_pipes EXCEPT ![k.input_stream] = @ - 1]
    /\ tee_out' = Append(tee_out, [from |-> k.input_stream, to |-> k.stream,
                                   prefix |-> k.prefix])
    /\ UNCHANGED <<sup_vars, tee_pc, tee_kwargs, tee_threads>>

TeeRun == \E t \in DOMAIN tee_threads : TeeThreadRun(t)
TeeCopies == \E t \in DOMAIN tee_threads : TeeCopy(t)

TeeNext ==
    \/ TeeSetPrefix
    \/ TeeSetInput
    \/ TeeSetStream
    \/ TeeStartThread
    \/ TeeRun
    \/ TeeCopies

TeeSpec == TeeInit /\ [][TeeNext]_vars

(***************************************************************************)
(* The version gate of _find_geth on its own: a supervisor constructed for *)
(* local spawn, on a machine whose geth reports any of GethVersions.       *)
(***************************************************************************)
GethVersions ==
    { << a, b, c >> : a \in 0..2, b \in 6..8, c \in { 0, 1, 2, 3, 998, 999, 1000 } }

VersionInit ==
    /\ cfg = [addr |-> "http://bad:1", start_node |-> TRUE, windows |-> FALSE]
    /\ geth \in { [found |-> TRUE, version |-> v] : v \in GethVersions }
                \cup { [found |-> FALSE, version |-> <<>>],
                       [found |-> TRUE, version |-> <<>>] }
    /\ public_nodes = NotCalled
    /\ start_node = TRUE
    /\ addr_list = << "http://bad:1" >>
    /\ web3 = NoProvider
    /\ prog = None
    /\ ps = NoProcess
    /\ children = <<>>
    /\ hooks = 0
    /\ pc = "idle"
    /\ start_port = NoPort
    /\ elapsed = 0
    /\ node = NoNode
    /\ connected = FALSE
    /\ genesis_block = None
    /\ attempts = 0
    /\ result = [op |-> "none", outcome |-> "none", detail |-> ""]
    /\ exited = FALSE
    /\ hook_errors = 0
    /\ TeeIdle

VersionNext == Start \/ Stop

VersionSpec == VersionInit /\ [][VersionNext]_vars

(***************************************************************************)
(* Claims                                                                  *)
(***************************************************************************)
StartOutcome(o) == result.op = "start" /\ result.outcome = o

C2_StopIdempotent ==
    result.op = "stop" =>
        /\ result.outcome \in { "noop", "terminated" }
        /\ ps = NoProcess

\* C3: start() has returned normally only if the attempt that ended the
\* call left the liveness loop, obtained a genesis block and identified it
\* as 'rinkeby'; a call that ended otherwise ended with an error.
StartErrors ==
    { "already_started", "index_error", "geth_not_found", "version_parse_error",
      "incompatible_version", "cannot_connect", "wrong_chain", "liveness_error" }

C3_NoPartialSuccess ==
    /\ StartOutcome("ok") =>
          /\ pc = "verified"
          /\ connected
          /\ genesis_block # None
          /\ GENESES(genesis_block) = "rinkeby"
    /\ (result.op = "start" /\ pc \in Done) =>
          /\ result.outcome \in StartErrors \cup { "ok" }
          /\ (result.outcome \in StartErrors) <=> (pc = "failed")

C3_Witness ==
    /\ StartOutcome("ok")
    /\ pc = "verified"
    /\ genesis_block = RinkebyHash

\* C4: the step in which an attempt obtains a genesis block that resolves
\* to a network other than 'rinkeby' ends start() with the wrong-chain
\* error: no candidate is popped, the mode is unchanged, no attempt is made.
C4_WrongChainIsFinal ==
    [][(pc \in { "connecting", "awaiting_genesis" }
        /\ genesis_block' # None
        /\ GENESES(genesis_block') # "rinkeby")
          => /\ pc' = "failed"
             /\ result' = [op |-> "start", outcome |-> "wrong_chain",
                           detail |-> GENESES(genesis_block')]
             /\ UNCHANGED <<addr_list, start_node, attempts, web3, hooks,
                            children, ps>>]_vars

C4_Witness ==
    /\ StartOutcome("wrong_chain")
    /\ result.detail = "mainnet"
    /\ ~start_node
    /\ addr_list # <<>>

\* the remote attempt of scenario A: the only candidate 'http://bad:1',
\* start_node false, and the liveness loop about to hit its deadline
ScenarioA ==
    /\ cfg.addr = "http://bad:1"
    /\ ~cfg.start_node
    /\ web3 = HTTPProvider("http://bad:1")
    /\ pc = "connecting"

\* C5 (as stated): in scenario A the timeout ends start() with the
\* cannot-connect error naming 'http://bad:1', and no local node is spawned.
C5_FailsNamingRemote ==
    [][(ScenarioA /\ ConnectTimeout)
          => /\ result' = [op |-> "start", outcome |-> "cannot_connect",
                           detail |-> "http://bad:1"]
             /\ children' = children]_vars

\* C5 (amended): in scenario A the timeout does not end start() with a
\* cannot-connect error: the candidate list being empty, the mode is
\* switched to local-spawn and a local attempt is made in the same call,
\* which spawns a node if a compatible geth is installed and otherwise
\* fails with the error of the geth lookup.
C5_FallsBackToLocal ==
    [][(ScenarioA /\ ConnectTimeout)
          => /\ start_node'
             /\ attempts' = attempts + 1
             /\ result'.outcome # "cannot_connect"
             /\ IF find_geth(geth) = "ok"
                THEN /\ pc' = "connecting"
                     /\ web3'.kind = "ipc"
                     /\ ps' # NoProcess
                     /\ Len(children') = Len(children) + 1
                ELSE /\ pc' = "failed"
                     /\ result'.outcome = find_geth(geth)
                     /\ children' = children]_vars

C5_Witness ==
    /\ cfg.addr = "http://bad:1"
    /\ ~cfg.start_node
    /\ attempts = 2
    /\ web3.kind = "ipc"
    /\ ps # NoProcess
    /\ pc = "connecting"

\* the local attempt of scenario B has just begun: the call started in
\* remote mode, every candidate timed out, and the node just spawned will
\* be live and serve the rinkeby genesis block before the deadline
ScenarioB(n) ==
    /\ pc = "connecting"
    /\ elapsed = 0
    /\ attempts >= 2
    /\ web3.kind = "ipc"
    /\ addr_list = <<>>
    /\ Len(children) = n
    /\ node.liveAt <= CONNECTION_TIMEOUT
    /\ node.blockAt <= CONNECTION_TIMEOUT
    /\ GENESES(node.hash) = "rinkeby"

\* C6: when a timeout finds the candidate list empty and a compatible geth
\* is installed, the same call switches to local-spawn and launches one
\* child; if that node is live and serves the rinkeby genesis before the
\* deadline, the call eventually returns successfully with that one child.
C6_FallbackVerifies ==
    /\ [][((ConnectTimeout \/ GenesisTimeout)
           /\ ~start_node /\ addr_list = <<>> /\ find_geth(geth) = "ok")
             => /\ start_node'
                /\ pc' = "connecting"
                /\ web3'.kind = "ipc"
                /\ Len(children') = Len(children) + 1
                /\ ps' = Len(children')]_vars
    /\ \A n \in 1..MaxSpawns :
          ScenarioB(n) ~> /\ StartOutcome("ok")
                          /\ pc = "verified"
                          /\ start_node
                          /\ Len(children) = n
                          /\ ps = n
                          /\ Alive(children) = { n }

C6_Witness ==
    /\ StartOutcome("ok")
    /\ attempts >= 2
    /\ ~cfg.start_node
    /\ web3.kind = "ipc"
    /\ Alive(children) = { ps }

\* C7: at most one spawned child is alive at any time, and a child is
\* spawned only when none is owned.
C7_AtMostOneChild ==
    /\ [](Cardinality(Alive(children)) <= 1)
    /\ [][Len(children') > Len(children) => ps = NoProcess]_vars

C7_Witness ==
    /\ Len(children) = 2
    /\ children[1] = "terminated"
    /\ children[2] = "alive"
    /\ ps = 2

\* C8: an owned child always has an exit hook registered, and after normal
\* program termination no hook has raised, no child is owned and every
\* spawned child has been terminated and waited on.
C8_ExitHookCleansUp ==
    /\ ps # NoProcess => hooks > 0
    /\ exited =>
          /\ hook_errors = 0
          /\ ps = NoProcess
          /\ \A p \in DOMAIN children : children[p] = "terminated"

\* C9: once both log-copy threads run, exactly one copies the child's
\* stderr to sys.stderr with prefix 'GETH: ' and exactly one copies the
\* child's stdout to sys.stdout with prefix 'GETHO: '.
TasksFor(i) ==
    { t \in DOMAIN tee_threads :
        /\ tee_threads[t].state = "running"
        /\ tee_threads[t].kwargs = channel_kwargs(i) }

C9_OneTaskPerStream ==
    (/\ tee_pc.step = "done"
     /\ \A t \in DOMAIN tee_threads : tee_threads[t].state = "running")
        => \A i \in DOMAIN channels : Cardinality(TasksFor(i)) = 1

\* C10: get_public_nodes returns a non-empty sequence, and a permutation of
\* the static list whenever the fetch failed (network error, malformed
\* response or non-2xx status).
IsPermutation(a, b) ==
    /\ Len(a) = Len(b)
    /\ \A x \in Range(a) \cup Range(b) :
          Cardinality({ i \in DOMAIN a : a[i] = x })
              = Cardinality({ i \in DOMAIN b : b[i] = x })

FetchFailed(resp) ==
    resp.raises \/ ~resp.json \/ resp.status < 200 \/ resp.status > 299

C10_DiscoverNonEmpty ==
    public_nodes.called =>
        /\ Len(public_nodes.value) > 0
        /\ FetchFailed(public_nodes.response)
              => IsPermutation(public_nodes.value, FALLBACK_NODE_LIST)

\* C11: the version check accepts a three-component version v exactly
\* when 1.7.2 <= v <= 1.7.999 in the order major, minor, patch; a rejected
\* version ends start() with the incompatible-version error, nothing spawned.
VersionKey(v) == v[1] * 100000000 + v[2] * 10000 + v[3]

InSupportedRange(v) ==
    /\ VersionKey(<<1, 7, 2>>) <= VersionKey(v)
    /\ VersionKey(v) <= VersionKey(<<1, 7, 999>>)

C11_VersionGate ==
    [][(Start /\ ps = NoProcess /\ geth.found /\ geth.version # <<>>)
          => IF InSupportedRange(geth.version)
             THEN /\ prog' = "geth"
                  /\ ps' # NoProcess
                  /\ pc' = "connecting"
             ELSE /\ result'.outcome = "incompatible_version"
                  /\ pc' = "failed"
                  /\ ps' = NoProcess
                  /\ prog' = prog]_vars

C11_Witness ==
    /\ geth.version = <<1, 7, 999>>
    /\ prog = "geth"
    /\ ps # NoProcess
    /\ pc = "connecting"

\* the deadline elapses during an attempt
TimeoutStep == ConnectTimeout \/ GenesisTimeout

Polling == { "connecting", "awaiting_genesis" }

\* C12 (as stated): a timeout in local-spawn mode, or in remote-connect
\* mode with candidates remaining, ends start() with the cannot-connect
\* error naming the attempted provider, and no other attempt is made.
C12_TimeoutIsFatal ==
    [][(TimeoutStep /\ (start_node \/ addr_list # <<>>))
          => /\ pc' = "failed"
             /\ result' = [op |-> "start", outcome |-> "cannot_connect",
                           detail |-> web3.endpoint]
             /\ attempts' = attempts]_vars

\* C12 (amended): a timeout in local-spawn mode ends start() with the
\* cannot-connect error naming the attempted provider and no other attempt
\* is made; a timeout in remote-connect mode with candidates remaining does
\* not fail: the next candidate is popped and attempted, still in remote mode.
C12_FatalOnlyInLocalMode ==
    [][TimeoutStep
          => IF start_node
             THEN /\ pc' = "failed"
                  /\ result' = [op |-> "start", outcome |-> "cannot_connect",
                                detail |-> web3.endpoint]
                  /\ UNCHANGED <<attempts, addr_list, web3, start_node,
                                 children, ps, hooks>>
             ELSE addr_list # <<>>
                    => /\ ~start_node'
                       /\ pc' = "connecting"
                       /\ result'.outcome = "pending"
                       /\ attempts' = attempts + 1
                       /\ web3' = HTTPProvider(addr_list[Len(addr_list)])
                       /\ addr_list' = SubSeq(addr_list, 1, Len(addr_list) - 1)]_vars

C12_Witness ==
    /\ StartOutcome("cannot_connect")
    /\ attempts >= 3
    /\ web3.kind = "ipc"
    /\ result.detail = web3.endpoint

\* C13: the mode goes from remote-connect to local-spawn only at a timeout
\* that finds the candidate list empty; once local-spawn, the mode stays
\* local-spawn and a timeout is fatal.
C13_FallbackOnce ==
    /\ [][(pc # "new" /\ ~start_node /\ start_node')
             => (TimeoutStep /\ addr_list = <<>>)]_vars
    /\ [][(pc # "new" /\ start_node) => start_node']_vars
    /\ [][(TimeoutStep /\ start_node)
             => (pc' = "failed" /\ result'.outcome = "cannot_connect")]_vars

C13_Witness ==
    /\ ~cfg.start_node
    /\ start_node
    /\ StartOutcome("cannot_connect")
    /\ addr_list = <<>>

\* C14 (as stated): a start() call makes at most two attempts.
C14_AtMostTwoAttempts == attempts <= 2

\* length of the candidate list the constructor built
ConstructedLen == IF cfg.addr # None THEN 1 ELSE Len(public_nodes.value)

\* C14 (amended): within a start() call every further attempt either pops
\* one candidate (a remote attempt) or is the switch to local-spawn at an
\* empty list, after which the call makes no further attempt; so a call
\* makes at most n+1 attempts for a list of n candidates.
C14_OneAttemptPerCandidate ==
    /\ [][(pc \in Polling /\ attempts' # attempts)
             => /\ attempts' = attempts + 1
                /\ \/ ~start_node' /\ Len(addr_list') = Len(addr_list) - 1
                   \/ /\ ~start_node /\ start_node'
                      /\ addr_list = <<>> /\ addr_list' = <<>>]_vars
    /\ [][(pc \in Polling /\ start_node) => attempts' = attempts]_vars
    /\ [](attempts <= ConstructedLen + 1)

C14_Witness ==
    /\ attempts = 4
    /\ web3.kind = "ipc"
    /\ pc = "connecting"

\* C15: an error raised by the liveness check or the genesis fetch never
\* makes start() fail: a polling step taken before the deadline fails
\* start() only with the wrong-chain error.
C15_PollingErrorsAreNotReady ==
    [][(pc \in Polling /\ ~timed_out(elapsed) /\ pc' = "failed")
          => result'.outcome = "wrong_chain"]_vars

\* C16: stop() on an owned child that has already vanished raises nothing
\* and clears the owned child record.
C16_StopSwallowsVanished ==
    [][(Stop /\ ps # NoProcess /\ children[ps] = "vanished")
          => /\ result'.outcome # "attribute_error"
             /\ ps' = NoProcess]_vars

\* the ports a local node can be given
AllPorts == (StartPorts \ { NoPort }) \cup FreePorts

\* C17: on every platform the local transport path of a spawned node
\* belongs to one port only: no other port yields the same path.
C17_PathPerPort ==
    web3.kind = "ipc" =>
        Cardinality({ q \in AllPorts :
                        ipc_path(CHAIN, q, cfg.windows, start_node)
                          = web3.endpoint }) <= 1

\* C18: a start() that fails after spawning a child leaves the child owned
\* and running; while it is owned every start() raises "already started";
\* a start() that directly follows a stop() is not rejected.
C18_StopReenablesStart ==
    /\ [][(pc \in Polling /\ pc' = "failed" /\ ps # NoProcess)
             => (ps' = ps /\ children' = children)]_vars
    /\ [][(Start /\ ps # NoProcess)
             => result'.outcome = "already_started"]_vars
    /\ [][(Start /\ result.op = "stop")
             => result'.outcome # "already_started"]_vars

\* C19: whenever start() goes on to build a remote provider the candidate
\* list is non-empty and the pop does not fail.
C19_PopNeverFails ==
    [][(Start /\ ~already_started(ps) /\ ~start_node)
          => /\ addr_list # <<>>
             /\ result'.outcome # "index_error"]_vars

\* C20: every start() call terminates; an attempt never sleeps again once
\* its deadline has passed, so it ends within one sleep of the deadline; the
\* candidate list only ever shrinks, one candidate at a time from the end;
\* every remote attempt uses the candidate it has just removed from the
\* list, so no candidate is attempted twice; a call makes at most n+1
\* attempts for a list of n candidates.
C20_StartTerminates ==
    /\ (pc \in Polling) ~> (pc \in Done)
    /\ [](pc \in Polling => elapsed <= CONNECTION_TIMEOUT + MaxSleep)
    /\ [][(pc \in Polling /\ elapsed > CONNECTION_TIMEOUT)
             => elapsed' <= elapsed]_vars
    /\ [][pc # "new"
             => \/ addr_list' = addr_list
                \/ /\ addr_list # <<>>
                   /\ addr_list' = SubSeq(addr_list, 1, Len(addr_list) - 1)]_vars
    /\ [][(hooks' # hooks /\ web3'.kind = "http")
             => /\ addr_list # <<>>
                /\ web3'.endpoint = addr_list[Len(addr_list)]
                /\ addr_list' = SubSeq(addr_list, 1, Len(addr_list) - 1)]_vars
    /\ [](pc \in Polling \cup Done => attempts <= ConstructedLen + 1)

C20_Witness ==
    /\ pc \in Done
    /\ result.op = "start"
    /\ ConstructedLen >= 2
    /\ attempts = ConstructedLen + 1
    /\ addr_list = <<>>

====
